---------------------------- MODULE Spec2Model ----------------------------
(***************************************************************************)
(* Model of the dataset analyzer (analyze, percentile and round) of the    *)
(* dashboard's DataAnalyzer component.                                     *)
(*                                                                         *)
(* JavaScript numbers are modelled as exact rationals in lowest terms,     *)
(* extended with +Infinity, -Infinity and NaN, with the IEEE rules for the *)
(* special values (Infinity - Infinity = NaN, every comparison with NaN is *)
(* false, ...).  Binary rounding error of finite doubles and the sign of   *)
(* zero are not modelled.  Array elements are tagged JavaScript values;    *)
(* strings are sequences of one-character strings so that trim() and       *)
(* Number() are computed character by character.                           *)
(***************************************************************************)
EXTENDS Integers, Sequences, FiniteSets

(***************************************************************************)
(* Numbers                                                                 *)
(***************************************************************************)
Abs(i) == IF i < 0 THEN -i ELSE i

RECURSIVE GCD(_, _)
GCD(a, b) == IF b = 0 THEN a ELSE GCD(b, a % b)

NaN == [k |-> "nan", n |-> 0, d |-> 1]
PInf == [k |-> "pinf", n |-> 0, d |-> 1]
NInf == [k |-> "ninf", n |-> 0, d |-> 1]

\* The finite number n/d (d > 0), in lowest terms.
Fin(n, d) ==
  LET g == GCD(Abs(n), d)
  IN  [k |-> "fin", n |-> n \div g, d |-> d \div g]

Int2Num(i) == [k |-> "fin", n |-> i, d |-> 1]

IsFin(a) == a.k = "fin"
IsNaN(a) == a.k = "nan"
IsInfinite(a) == a.k \in {"pinf", "ninf"}

\* -1, 0 or 1 for a number that is not NaN.
Sign(a) ==
  CASE a.k = "pinf" -> 1
    [] a.k = "ninf" -> -1
    [] OTHER -> IF a.n > 0 THEN 1 ELSE IF a.n < 0 THEN -1 ELSE 0

InfOfSign(s) == IF s > 0 THEN PInf ELSE NInf

Neg(a) ==
  CASE a.k = "nan" -> NaN
    [] a.k = "pinf" -> NInf
    [] a.k = "ninf" -> PInf
    [] OTHER -> [k |-> "fin", n |-> -a.n, d |-> a.d]

\* a + b
Add(a, b) ==
  CASE IsNaN(a) \/ IsNaN(b) -> NaN
    [] IsInfinite(a) /\ IsInfinite(b) -> IF a.k = b.k THEN a ELSE NaN
    [] IsInfinite(a) -> a
    [] IsInfinite(b) -> b
    [] OTHER ->
         LET g == GCD(a.d, b.d)
         IN  Fin(a.n * (b.d \div g) + b.n * (a.d \div g), (a.d \div g) * b.d)

\* a - b
Sub(a, b) == Add(a, Neg(b))

\* a * b
Mul(a, b) ==
  CASE IsNaN(a) \/ IsNaN(b) -> NaN
    [] IsInfinite(a) \/ IsInfinite(b) ->
         IF Sign(a) * Sign(b) = 0 THEN NaN ELSE InfOfSign(Sign(a) * Sign(b))
    [] OTHER ->
         LET g1 == GCD(Abs(a.n), b.d)
             g2 == GCD(Abs(b.n), a.d)
         IN  Fin((a.n \div g1) * (b.n \div g2), (a.d \div g2) * (b.d \div g1))

\* a / b
Div(a, b) ==
  CASE IsNaN(a) \/ IsNaN(b) -> NaN
    [] IsInfinite(a) /\ IsInfinite(b) -> NaN
    [] IsInfinite(a) -> InfOfSign(Sign(a) * (IF Sign(b) < 0 THEN -1 ELSE 1))
    [] IsInfinite(b) -> Int2Num(0)
    [] b.n = 0 -> IF a.n = 0 THEN NaN ELSE InfOfSign(Sign(a))
    [] OTHER ->
         Mul(a, [k |-> "fin", n |-> Sign(b) * b.d, d |-> Abs(b.n)])

\* a < b; false when either side is NaN.
Lt(a, b) ==
  CASE IsNaN(a) \/ IsNaN(b) -> FALSE
    [] a.k = "ninf" -> b.k # "ninf"
    [] a.k = "pinf" -> FALSE
    [] b.k = "ninf" -> FALSE
    [] b.k = "pinf" -> TRUE
    [] OTHER -> a.n * b.d < b.n * a.d

Gt(a, b) == Lt(b, a)
Le(a, b) == Lt(a, b) \/ (~IsNaN(a) /\ a = b)

\* a === b on numbers; NaN is not equal to itself.
StrictEq(a, b) == ~IsNaN(a) /\ a = b

\* Math.floor and Math.ceil: the special values are returned unchanged.
MathFloor(a) == IF IsFin(a) THEN Int2Num(a.n \div a.d) ELSE a
MathCeil(a) == IF IsFin(a) THEN Int2Num(-((-a.n) \div a.d)) ELSE a

\* Math.round: the nearest integer, a tie going towards +Infinity.
MathRound(a) == IF IsFin(a) THEN MathFloor(Add(a, Fin(1, 2))) ELSE a

RECURSIVE IntPow(_, _)
IntPow(b, e) == IF e = 0 THEN 1 ELSE b * IntPow(b, e - 1)

\* Math.pow(10, digits) for a digit count >= 0.
Pow10(digits) == Int2Num(IntPow(10, digits))

\* Math.pow(a, 2)
Square(a) == Mul(a, a)

(***************************************************************************)
(* JavaScript values and strings                                           *)
(***************************************************************************)
JNumber(v) == [t |-> "number", num |-> v, str |-> <<>>, b |-> FALSE]
JString(s) == [t |-> "string", num |-> NaN, str |-> s, b |-> FALSE]
JBoolean(b) == [t |-> "boolean", num |-> NaN, str |-> <<>>, b |-> b]
JNull == [t |-> "null", num |-> NaN, str |-> <<>>, b |-> FALSE]
JUndefined == [t |-> "undefined", num |-> NaN, str |-> <<>>, b |-> FALSE]

TypeOf(x) == IF x.t = "null" THEN "object" ELSE x.t

WhiteSpace == {" ", "\t", "\n"}
DigitChars == <<"0", "1", "2", "3", "4", "5", "6", "7", "8", "9">>
IsDigit(c) == \E i \in 1..10 : DigitChars[i] = c
DigitVal(c) == (CHOOSE i \in 1..10 : DigitChars[i] = c) - 1

RECURSIVE TrimStart(_)
TrimStart(s) ==
  IF s # <<>> /\ Head(s) \in WhiteSpace THEN TrimStart(Tail(s)) ELSE s

RECURSIVE TrimEnd(_)
TrimEnd(s) ==
  IF s # <<>> /\ s[Len(s)] \in WhiteSpace
  THEN TrimEnd(SubSeq(s, 1, Len(s) - 1))
  ELSE s

\* String.prototype.trim
Trim(s) == TrimEnd(TrimStart(s))

AllDigits(s) == \A i \in 1..Len(s) : IsDigit(s[i])

RECURSIVE DigitsVal(_)
DigitsVal(s) ==
  IF s = <<>> THEN 0
  ELSE 10 * DigitsVal(SubSeq(s, 1, Len(s) - 1)) + DigitVal(s[Len(s)])

InfinityChars == <<"I", "n", "f", "i", "n", "i", "t", "y">>

\* Mutant: the literal is read as parseInt reads it, the digits before the
\* decimal point only.
UnsignedDecimalIntegerPart(s) ==
  LET dots == {i \in 1..Len(s) : s[i] = "."}
      ip == IF dots = {} THEN s
            ELSE SubSeq(s, 1, (CHOOSE i \in dots : \A j \in dots : i <= j) - 1)
  IN  IF ip # <<>> /\ AllDigits(ip) THEN Int2Num(DigitsVal(ip)) ELSE NaN

\* An unsigned decimal literal without exponent: digits, digits.digits,
\* digits. or .digits; NaN for anything else.
UnsignedDecimal(s) ==
  LET dots == {i \in 1..Len(s) : s[i] = "."}
  IN  IF dots = {}
      THEN IF s # <<>> /\ AllDigits(s) THEN Int2Num(DigitsVal(s)) ELSE NaN
      ELSE LET p == CHOOSE i \in dots : \A j \in dots : i <= j
               ip == SubSeq(s, 1, p - 1)
               fp == SubSeq(s, p + 1, Len(s))
           IN  IF AllDigits(ip) /\ AllDigits(fp) /\ Len(ip) + Len(fp) >= 1
               THEN Fin(DigitsVal(ip) * IntPow(10, Len(fp)) + DigitsVal(fp),
                        IntPow(10, Len(fp)))
               ELSE NaN

\* Number(s) for a string s: surrounding white space is ignored, the empty
\* string is 0, then an optionally signed Infinity or decimal literal.
\* (Exponents and the 0x/0o/0b forms are outside the strings of the model.)
StringToNumber(s) ==
  LET t == Trim(s)
      signed == t # <<>> /\ Head(t) \in {"+", "-"}
      body == IF signed THEN Tail(t) ELSE t
      mag == IF body = InfinityChars THEN PInf ELSE UnsignedDecimal(body)
  IN  IF t = <<>> THEN Int2Num(0)
      ELSE IF signed /\ Head(t) = "-" THEN Neg(mag) ELSE mag


(***************************************************************************)
(* analyze: the helpers                                                    *)
(***************************************************************************)
\* Mutant: a tie is rounded away from zero, -0.005 to -0.01.
roundHalfAwayFromZero(n, digits) ==
  IF Lt(n, Int2Num(0))
  THEN Neg(Div(MathRound(Mul(Neg(n), Pow10(digits))), Pow10(digits)))
  ELSE Div(MathRound(Mul(n, Pow10(digits))), Pow10(digits))

\* round(n, digits) = Math.round(n * 10^digits) / 10^digits
round(n, digits) == Div(MathRound(Mul(n, Pow10(digits))), Pow10(digits))

\* Mutant: the blank-string test x.trim() !== '' is left out, so that blank
\* text is parsed (Number of a blank string is 0) and kept.
CoerceElementNoBlankTest(x) ==
  IF TypeOf(x) = "number" /\ ~IsNaN(x.num) THEN x
  ELSE IF TypeOf(x) = "string" /\ ~IsNaN(StringToNumber(x.str))
       THEN JNumber(StringToNumber(x.str))
       ELSE JNull

\* Mutant: a numeric string is returned as it is instead of Number(x), so
\* that the filter drops it.
CoerceElementKeepsText(x) ==
  IF TypeOf(x) = "number" /\ ~IsNaN(x.num) THEN x
  ELSE IF TypeOf(x) = "string" /\ Trim(x.str) # <<>>
            /\ ~IsNaN(StringToNumber(x.str))
       THEN x
       ELSE JNull

\* The callback of arr.map: the element as a number, or null.
CoerceElement(x) ==
  IF TypeOf(x) = "number" /\ ~IsNaN(x.num) THEN x
  ELSE IF TypeOf(x) = "string" /\ Trim(x.str) # <<>>
            /\ ~IsNaN(StringToNumber(x.str))
       THEN JNumber(StringToNumber(x.str))
       ELSE JNull

\* The callback of .filter: x !== null && typeof x === 'number'.
KeepElement(x) == x # JNull /\ TypeOf(x) = "number"

\* nums before sorting: arr.map(...).filter(...), as numbers.
CoerceAll(arr) ==
  LET mapped == [i \in 1..Len(arr) |-> CoerceElement(arr[i])]
      kept == SelectSeq(mapped, KeepElement)
  IN  [i \in 1..Len(kept) |-> kept[i].num]

\* Mutant: the comparator (a, b) => b - a, which sorts descending.
CompareFnDescending(a, b) == Sub(b, a)

\* The comparator of nums.sort: (a, b) => a - b.
CompareFn(a, b) == Sub(a, b)

\* A comparator result > 0 puts b before a; NaN counts as 0.
RECURSIVE SortInsert(_, _)
SortInsert(x, s) ==
  IF s = <<>> THEN <<x>>
  ELSE IF Gt(CompareFn(Head(s), x), Int2Num(0))
       THEN <<x>> \o s
       ELSE <<Head(s)>> \o SortInsert(x, Tail(s))

\* Mutant: nums is left in the order of the input.
SortNumsSkipped(s) == s

\* nums.sort((a, b) => a - b)
RECURSIVE SortNums(_)
SortNums(s) ==
  IF s = <<>> THEN <<>>
  ELSE SortInsert(s[Len(s)], SortNums(SubSeq(s, 1, Len(s) - 1)))

\* nums.reduce((s, v) => s + v, 0)
RECURSIVE SumOf(_)
SumOf(s) ==
  IF s = <<>> THEN Int2Num(0)
  ELSE Add(SumOf(SubSeq(s, 1, Len(s) - 1)), s[Len(s)])

\* nums[i] for a 0-based index i given as a number; undefined outside.
ElementAt(nums, i) ==
  IF IsFin(i) /\ i.d = 1 /\ i.n >= 0 /\ i.n < Len(nums)
  THEN JNumber(nums[i.n + 1])
  ELSE JUndefined

\* The numeric value an operand of * or + is converted to.
ToNumber(x) ==
  CASE x.t = "number" -> x.num
    [] x.t = "string" -> StringToNumber(x.str)
    [] x.t = "boolean" -> IF x.b THEN Int2Num(1) ELSE Int2Num(0)
    [] x.t = "null" -> Int2Num(0)
    [] OTHER -> NaN

\* Mutant: the even case is forgotten; the upper middle element is taken.
MedianUpperMiddle(nums, count) == nums[count \div 2 + 1]

\* The median of the sorted nums.
Median(nums, count) ==
  IF count % 2 = 1
  THEN nums[(count - 1) \div 2 + 1]
  ELSE Div(Add(nums[count \div 2], nums[count \div 2 + 1]), Int2Num(2))

\* nums.reduce((acc, v) => acc + Math.pow(v - avg, 2), 0) / count
RECURSIVE SquaredDeviations(_, _)
SquaredDeviations(s, avg) ==
  IF s = <<>> THEN Int2Num(0)
  ELSE Add(SquaredDeviations(SubSeq(s, 1, Len(s) - 1), avg),
           Square(Sub(s[Len(s)], avg)))

Variance(nums, avg, count) ==
  Div(SquaredDeviations(nums, avg), Int2Num(count))

\* floor(f[1] * ... * f[n] * (q + r/d)) for 0 <= r < d, one factor at a time.
RECURSIVE FloorScaled(_, _, _, _)
FloorScaled(q, r, d, f) ==
  IF f = <<>> THEN q
  ELSE FloorScaled(q * Head(f) + (r * Head(f)) \div d, (r * Head(f)) % d,
                   d, Tail(f))

\* The largest s in lo..hi with s * s <= m.
RECURSIVE ISqrtIn(_, _, _)
ISqrtIn(m, lo, hi) ==
  IF lo = hi THEN lo
  ELSE LET mid == (lo + hi + 1) \div 2
       IN  IF mid * mid <= m THEN ISqrtIn(m, mid, hi)
           ELSE ISqrtIn(m, lo, mid - 1)

ISqrt(m) == ISqrtIn(m, 0, IF m < 46340 THEN m ELSE 46340)

\* round(Math.sqrt(v), 2): the square root is irrational in general, so the
\* rounded root is computed directly: it is k/100 for the k with
\* (2k-1)^2 <= 40000 * v < (2k+1)^2.
RoundSqrt2(v) ==
  CASE IsNaN(v) -> NaN
    [] v.k = "ninf" -> NaN
    [] v.k = "pinf" -> PInf
    [] v.n < 0 -> NaN
    [] OTHER ->
         LET m == FloorScaled(v.n \div v.d, v.n % v.d, v.d, <<200, 200>>)
         IN  Fin((ISqrt(m) + 1) \div 2, 100)

\* Mutant: count instead of count - 1.
PercentileIdxOffByOne(count, p) ==
  Mul(Div(p, Int2Num(100)), Int2Num(count))

\* The fractional index of percentile p: (p / 100) * (count - 1).
PercentileIdx(count, p) ==
  Mul(Div(p, Int2Num(100)), Int2Num(count - 1))

\* percentile(p) over the sorted nums; the value returned is a JavaScript
\* value (nums[lower] is undefined outside the array).
Percentile(nums, p) ==
  LET count == Len(nums)
      idx == PercentileIdx(count, p)
      lower == MathFloor(idx)
      upper == MathCeil(idx)
      weight == Sub(idx, lower)
  IN  IF Lt(p, Int2Num(0)) \/ Gt(p, Int2Num(100)) THEN JNumber(NaN)
      ELSE IF StrictEq(lower, upper) THEN ElementAt(nums, lower)
      ELSE JNumber(Add(Mul(ToNumber(ElementAt(nums, lower)),
                           Sub(Int2Num(1), weight)),
                       Mul(ToNumber(ElementAt(nums, upper)), weight)))

\* Mutant: the values are compared with the rounded average of the record.
BelowRoundedAvg(nums, avg) == SelectSeq(nums, LAMBDA n : Lt(n, round(avg, 2)))

\* nums.filter(n => n > avg) and nums.filter(n => n < avg)
AboveAvg(nums, avg) == SelectSeq(nums, LAMBDA n : Gt(n, avg))
BelowAvg(nums, avg) == SelectSeq(nums, LAMBDA n : Lt(n, avg))

ErrorMessage == "No valid numeric values found."

(***************************************************************************)
(* analyze                                                                 *)
(***************************************************************************)
\* The local variables of analyze, in the order the code sets them: the
\* sorted nums; then count and sum; then avg, min and max; then the rest.
LocalsRecord(nums, count, sum, avg, min, max) ==
  [nums |-> nums, count |-> count, sum |-> sum, avg |-> avg,
   min |-> min, max |-> max, range |-> Sub(max, min),
   median |-> Median(nums, count),
   variance |-> Variance(nums, avg, count),
   aboveAvg |-> AboveAvg(nums, avg), belowAvg |-> BelowAvg(nums, avg)]

LocalsFromSum(nums, count, sum) ==
  LocalsRecord(nums, count, sum, Div(sum, Int2Num(count)),
               nums[1], nums[Len(nums)])

LocalsFromSorted(nums) == LocalsFromSum(nums, Len(nums), SumOf(nums))

\* The local variables of analyze once nums is known to be non-empty.
AnalyzeLocals(arr) == LocalsFromSorted(SortNums(CoerceAll(arr)))

\* The record returned on success, from the local variables l.  The
\* percentile member is the closure over nums: Percentile(res.nums, p).
SuccessRecord(l) ==
  [nums |-> l.nums, count |-> l.count,
   sum |-> round(l.sum, 2), avg |-> round(l.avg, 2),
   min |-> l.min, max |-> l.max,
   range |-> round(l.range, 2), median |-> round(l.median, 2),
   stddev |-> RoundSqrt2(l.variance),
   aboveAvg |-> l.aboveAvg, belowAvg |-> l.belowAvg]

\* Mutant: map, filter and sort act on the caller's array itself, which is
\* left holding the sorted numbers.
ArgumentSortedInPlace(arr) ==
  [i \in 1..Len(CoerceAll(arr)) |-> JNumber(SortNums(CoerceAll(arr))[i])]

\* The caller's array after the call: arr.map and .filter return new arrays
\* and nums.sort sorts the filtered one, so arr is left as it was passed.
ArgumentAfter(arr) == arr

\* The record analyze returns.
analyze(arr) ==
  IF Len(CoerceAll(arr)) = 0
  THEN [error |-> ErrorMessage]
  ELSE SuccessRecord(AnalyzeLocals(arr))

(***************************************************************************)
(* The inputs of the model                                                 *)
(***************************************************************************)
MaxLen == 3
MaxMixedLen == 2

N(i) == JNumber(Int2Num(i))

\* Numbers: integers, values with a third decimal, and the infinities.
NumPool ==
  {N(1), N(2), N(4), JNumber(Fin(1, 200)), JNumber(Fin(-1, 200)),
   JNumber(Fin(3, 200)), JNumber(PInf), JNumber(NInf)}

\* Every kind of element: numbers, NaN, null, undefined, booleans, and
\* blank, numeric and non-numeric strings.
MixedPool ==
  {N(1), JNumber(NaN), JNumber(PInf), JNull, JUndefined,
   JBoolean(TRUE), JBoolean(FALSE),
   JString(<<>>), JString(<<" ", "\t">>), JString(<<"a", "b", "c">>),
   JString(<<"8", "5", ".", "5">>), JString(<<" ", "4", " ">>),
   JString(<<"N", "a", "N">>), JString(InfinityChars),
   JString(<<"-">> \o InfinityChars)}

SeqsUpTo(S, n) == UNION {[1..m -> S] : m \in 0..n}

NumSeq(s) == [i \in 1..Len(s) |-> N(s[i])]

\* exampleDatasets
exampleDatasets ==
  [temperatures |-> NumSeq(<<72, 75, 68, 80, 77, 74, 69, 78, 76, 73>>),
   testScores |-> NumSeq(<<88, 92, 79, 95, 87, 90, 84, 89, 93, 86>>),
   salesFigures |-> NumSeq(<<1200, 1450, 980, 1680, 1250, 1520, 1100, 1400>>),
   mixed |-> <<JString(<<"1", "0", "0">>), N(50), JNull,
               JString(<<"a", "b", "c">>), N(75),
               JString(<<"8", "5", ".", "5">>)>>]

\* The worked examples of the specification's testable properties.
WorkedExamples ==
  {NumSeq(<<1, 2, 3, 4, 5>>), NumSeq(<<5, 3, 1, 4, 2>>),
   NumSeq(<<1, 2, 3, 4>>), NumSeq(<<4, 1, 3, 2>>),
   NumSeq(<<2, 4, 4, 4, 5, 5, 7, 9>>)}

Inputs ==
  SeqsUpTo(NumPool, MaxLen) \cup SeqsUpTo(MixedPool, MaxMixedLen)
    \cup {exampleDatasets[k] : k \in DOMAIN exampleDatasets}
    \cup WorkedExamples

\* The ranks percentile is asked for: the ones the component renders
\* (10, 25, 50, 75, 90), the two ends, and one rank beyond each end.
PercentileRanks ==
  {Int2Num(i) : i \in {-1, 0, 10, 25, 50, 75, 90, 100, 101}}

(***************************************************************************)
(* The state machine: one call of analyze, then calls of the percentile    *)
(* function it returned; and the DataAnalyzer component around analyze.    *)
(***************************************************************************)
VARIABLES
  arr,    \* the caller's array
  pc,     \* "ready" before the call, "returned" after it
  res,    \* the record analyze returned
  loc,    \* the unrounded local variables of the call (empty on error)
  pct,    \* the last percentile call: rank, index arithmetic and value
  selected,  \* DataAnalyzer: the name of the selected dataset
  data,      \* DataAnalyzer: the array held, by reference
  result,    \* DataAnalyzer: the result shown, or null
  error,     \* DataAnalyzer: the error shown, or null
  datasets,  \* the arrays of the exampleDatasets object, as they are now
  call,      \* the last call runAnalysis made: the array as it was passed
             \* and as the call left it (null before the first call)
  progress,     \* UploadProgressSimulator: the progress state
  isUploading,  \* UploadProgressSimulator: the isUploading state
  intervalRef,  \* UploadProgressSimulator: intervalRef.current (0 for null)
  timers,       \* the interval timers of the simulator that are active
  messages,     \* MockAIChatSolution: the message list
  input,        \* MockAIChatSolution: the text of the input box
  chatLoading,  \* MockAIChatSolution: the loading state
  inFlight,     \* the questions whose mock response is pending
  selectedRow,  \* KeyboardNavigationExample: the selected row
  dataSize,     \* VirtualScrollExample: the dataSize prop
  scrollTop,    \* VirtualScrollExample: the scroll offset of the container
  visibleRange, \* VirtualScrollExample: the visibleRange state
  listItems,    \* DemoList: the items prop as the parent passes it
  listLoading,  \* DemoList: the loading state
  listData,     \* DemoList: the data state
  listTimer,    \* DemoList: the pending timeout of the effect, or null
  listDeps,     \* DemoList: the items the effect last ran with, or null
  listRender,   \* DemoList: a state update awaits its render
  exMounted,    \* LoadingExample: the component is mounted
  exData,       \* LoadingExample: the data state
  exLoading,    \* LoadingExample: the loading state
  exTimers,     \* LoadingExample: the pending timeouts
  exLate        \* LoadingExample: a timeout has called the setters after unmount

analyzerVars == <<arr, pc, res, loc, pct>>
shellVars == <<selected, data, result, error, datasets, call>>
uploadVars == <<progress, isUploading, intervalRef, timers>>
chatVars == <<messages, input, chatLoading, inFlight>>
widgetVars == <<selectedRow, dataSize, scrollTop, visibleRange>>
listVars ==
  <<listItems, listLoading, listData, listTimer, listDeps, listRender>>
exampleVars == <<exMounted, exData, exLoading, exTimers, exLate>>
uiVars == <<uploadVars, chatVars, widgetVars, listVars, exampleVars>>
vars == <<analyzerVars, shellVars, uiVars>>

NoResult == [none |-> TRUE]
NoQuery == [asked |-> FALSE]
null == [none |-> TRUE]

IsNull(x) == "none" \in DOMAIN x

\* A reference to one of the arrays of exampleDatasets, or to an array of
\* the component's own.
DatasetRef(name) == [alias |-> name, own |-> <<>>]
OwnArray(a) == [alias |-> "none", own |-> a]

\* DataAnalyzer as it is mounted: useState('temperatures'),
\* useState(exampleDatasets[selected]), useState(null), useState(null).
Mounted ==
  /\ selected = "temperatures"
  /\ data = DatasetRef("temperatures")
  /\ result = null
  /\ error = null
  /\ datasets = exampleDatasets
  /\ call = null

\* UploadProgressSimulator as it is mounted: useState(0), useState(false),
\* useRef(null); no timer runs.
UploadMounted ==
  /\ progress = 0
  /\ isUploading = FALSE
  /\ intervalRef = 0
  /\ timers = {}

\* The content of a message: text typed by the user, as characters, or one
\* of the literal texts of the component.
Typed(s) == [chars |-> s]
Literal(str) == [literal |-> str]

\* The message the list starts with (without its leading emoji).
Greeting ==
  [type |-> "ai",
   content |-> Literal("Hello! I'm your AI data assistant. Ask me anything about your dataset. Try asking about averages, trends, maximums, minimums, or data count!")]

\* MockAIChatSolution as it is mounted: the greeting, useState(''),
\* useState(false); no mock response is pending.
ChatMounted ==
  /\ messages = <<Greeting>>
  /\ input = <<>>
  /\ chatLoading = FALSE
  /\ inFlight = <<>>

\* VirtualScrollExample: dataSize = 1000 when the prop is omitted.
DefaultDataSize == 1000

\* KeyboardNavigationExample and VirtualScrollExample as they are mounted,
\* the latter with the dataSize prop size and its container not scrolled:
\* useState(0) and useState({ start: 0, end: 10 }).
WidgetsMountedWith(size) ==
  /\ selectedRow = 0
  /\ dataSize = size
  /\ scrollTop = 0
  /\ visibleRange = [start |-> 0, end |-> 10]

WidgetsMounted == WidgetsMountedWith(DefaultDataSize)

\* An array with its identity: the expression that created it (origin) and
\* which of that expression's arrays it is (id).
ArrayOf(origin, id, elems) == [origin |-> origin, id |-> id, elems |-> elems]

\* DemoList as its parent creates it, with the props items (null when the
\* parent omits it) and isLoading: useState(isLoading), useState([]); the
\* first render and its effect are still to come.
ListMountedWith(items, isLoading) ==
  /\ listItems = items
  /\ listLoading = isLoading
  /\ listData = ArrayOf("useState", 0, <<>>)
  /\ listTimer = null
  /\ listDeps = null
  /\ listRender = TRUE

ListMounted == ListMountedWith(null, FALSE)

\* A pending timeout of LoadingExample: reload tells the one of the Reload
\* button from the one of the effect.
ExampleTimer(id, reload) == [id |-> id, reload |-> reload]

\* LoadingExample as it is mounted: useState(null), useState(true), and the
\* effect has started its timeout.
ExampleMounted ==
  /\ exMounted = TRUE
  /\ exData = null
  /\ exLoading = TRUE
  /\ exTimers = {ExampleTimer(1, FALSE)}
  /\ exLate = FALSE

\* The components of the page other than DataAnalyzer, as they are mounted.
UiMounted ==
  /\ UploadMounted
  /\ ChatMounted
  /\ WidgetsMounted
  /\ ListMounted
  /\ ExampleMounted

IsError(r) == "error" \in DOMAIN r
IsSuccess(r) == "count" \in DOMAIN r

Init ==
  /\ arr \in Inputs
  /\ pc = "ready"
  /\ res = NoResult
  /\ loc = NoResult
  /\ pct = NoQuery
  /\ Mounted
  /\ UiMounted

Analyze ==
  /\ pc = "ready"
  /\ res' = analyze(arr)
  /\ loc' = IF IsError(res') THEN NoResult ELSE AnalyzeLocals(arr)
  /\ pc' = "returned"
  /\ arr' = ArgumentAfter(arr)
  /\ UNCHANGED pct
  /\ UNCHANGED shellVars
  /\ UNCHANGED uiVars

CallPercentile(p) ==
  /\ pc = "returned"
  /\ IsSuccess(res)
  /\ pct' = [asked |-> TRUE, p |-> p,
             idx |-> PercentileIdx(res.count, p),
             value |-> Percentile(res.nums, p)]
  /\ UNCHANGED <<arr, pc, res, loc>>
  /\ UNCHANGED shellVars
  /\ UNCHANGED uiVars

Next ==
  \/ Analyze
  \/ \E p \in PercentileRanks : CallPercentile(p)

Spec == Init /\ [][Next]_vars

(***************************************************************************)
(* DataAnalyzer: the component that holds a dataset, runs analyze on it    *)
(* and shows the result or the error.                                      *)
(***************************************************************************)
DatasetNames == DOMAIN exampleDatasets

\* The array the data state refers to.
DataArray == IF data.alias = "none" THEN data.own ELSE datasets[data.alias]

\* String.prototype.split with the separator sep.
RECURSIVE Split(_, _)
Split(s, sep) ==
  IF \A i \in 1..Len(s) : s[i] # sep THEN <<s>>
  ELSE <<SubSeq(s, 1, (CHOOSE i \in 1..Len(s) :
                         s[i] = sep /\ \A j \in 1..(i - 1) : s[j] # sep) - 1)>>
       \o Split(SubSeq(s, (CHOOSE i \in 1..Len(s) :
                             s[i] = sep /\ \A j \in 1..(i - 1) : s[j] # sep) + 1,
                       Len(s)), sep)

\* val.split(',').map(s => s.trim()).filter(s => s !== ''), as an array of
\* strings.
ParseCustomInput(val) ==
  LET parts == Split(val, ",")
      kept == SelectSeq([i \in 1..Len(parts) |-> Trim(parts[i])],
                        LAMBDA t : t # <<>>)
  IN  [i \in 1..Len(kept) |-> JString(kept[i])]

\* The texts typed into the custom dataset box: "100, 85.5", "abc", "",
\* " , ", "abc,,100" and "Infinity".
TypedTexts ==
  {<<"1", "0", "0", ",", " ", "8", "5", ".", "5">>,
   <<"a", "b", "c">>,
   <<>>,
   <<" ", ",", " ">>,
   <<"a", "b", "c", ",", ",", "1", "0", "0">>,
   InfinityChars}

\* Mutant: setError(null) at the top of runAnalysis is left out, so that a
\* successful analysis leaves the error as it was.
ErrorAfterRunNotCleared(r) ==
  IF IsError(r) THEN [message |-> r.error] ELSE error

\* The error state after runAnalysis got r: setError(null), then
\* setError(res.error) for an error record.
ErrorAfterRun(r) == IF IsError(r) THEN [message |-> r.error] ELSE null

\* The result state after runAnalysis got r: setResult(null) for an error
\* record, setResult(res) otherwise.
ResultAfterRun(r) == IF IsError(r) THEN null ELSE r

\* runAnalysis: analyze(data) acts on the array data refers to, then the
\* error and result states are set.
runAnalysis ==
  /\ call' = [passed |-> DataArray, left |-> ArgumentAfter(DataArray)]
  /\ IF data.alias = "none"
     THEN /\ data' = OwnArray(ArgumentAfter(DataArray))
          /\ datasets' = datasets
     ELSE /\ datasets' =
               [datasets EXCEPT ![data.alias] = ArgumentAfter(DataArray)]
          /\ data' = data
  /\ result' = ResultAfterRun(analyze(DataArray))
  /\ error' = ErrorAfterRun(analyze(DataArray))
  /\ UNCHANGED selected
  /\ UNCHANGED analyzerVars
  /\ UNCHANGED uiVars

\* handleDatasetChange(name)
handleDatasetChange(name) ==
  /\ selected' = name
  /\ data' = DatasetRef(name)
  /\ result' = null
  /\ error' = null
  /\ UNCHANGED <<datasets, call>>
  /\ UNCHANGED analyzerVars
  /\ UNCHANGED uiVars

\* handleCustomInput(e) with e.target.value = val: only data is set.
handleCustomInput(val) ==
  /\ data' = OwnArray(ParseCustomInput(val))
  /\ UNCHANGED <<selected, result, error, datasets, call>>
  /\ UNCHANGED analyzerVars
  /\ UNCHANGED uiVars

InitShell ==
  /\ arr = <<>>
  /\ pc = "ready"
  /\ res = NoResult
  /\ loc = NoResult
  /\ pct = NoQuery
  /\ Mounted
  /\ UiMounted

NextShell ==
  \/ runAnalysis
  \/ \E name \in DatasetNames : handleDatasetChange(name)
  \/ \E val \in TypedTexts : handleCustomInput(val)

SpecShell == InitShell /\ [][NextShell]_vars

(***************************************************************************)
(* UploadProgressSimulator: Start Upload starts an interval that adds a    *)
(* random chunk to progress every 300 ms until 100 is reached.             *)
(***************************************************************************)
MaxTimerId == 3
TimerIds == 1..MaxTimerId

\* Math.random() * 15 + 5 lies in [5, 20): the whole chunks of the model.
MinChunk == 5
ChunkSpan == 15
Chunks == MinChunk..(MinChunk + ChunkSpan - 1)

Min(a, b) == IF a <= b THEN a ELSE b
Max(a, b) == IF a >= b THEN a ELSE b

\* The identifier setInterval returns: one no active timer has and
\* intervalRef does not hold.
FreshTimers == {t \in TimerIds : t \notin timers /\ t # intervalRef}

\* clearInterval(intervalRef.current) under if (intervalRef.current)
ClearInterval(ts, ref) == ts \ {ref}

\* prevProgress + Math.random() * 15 + 5
NewProgress(prev, chunk) == prev + chunk

\* if (newProgress >= 100)
Completes(prev, chunk) == NewProgress(prev, chunk) >= 100

\* Mutant: the updater returns newProgress also when it completes.
ProgressAfterTickNotCapped(prev, chunk) == NewProgress(prev, chunk)

\* The value the updater of a tick returns.
ProgressAfterTick(prev, chunk) ==
  IF Completes(prev, chunk) THEN 100 ELSE NewProgress(prev, chunk)

\* Mutant: setIsUploading(false) is left out of the completing tick.
UploadingAfterTickNotReset(uploading, prev, chunk) == uploading

\* isUploading after a tick: setIsUploading(false) when it completes.
UploadingAfterTick(uploading, prev, chunk) ==
  IF Completes(prev, chunk) THEN FALSE ELSE uploading

\* Mutant: clearInterval is left out of the completing tick.
TimersAfterTickNotCleared(ts, ref, prev, chunk) == ts

\* The active timers after a tick: the interval of intervalRef is cleared
\* when the tick completes.
TimersAfterTick(ts, ref, prev, chunk) ==
  IF Completes(prev, chunk) THEN ClearInterval(ts, ref) ELSE ts

\* Math.min(prev + 25, 100)
ProgressAfterAdd(prev) == Min(prev + 25, 100)

restOfUpload ==
  <<analyzerVars, shellVars, chatVars, widgetVars, listVars, exampleVars>>

\* The Start Upload button: disabled={isUploading || progress === 100}.
StartEnabled == ~(isUploading \/ progress = 100)

\* The +25% button: disabled={isUploading || progress >= 100}.
AddEnabled == ~(isUploading \/ progress >= 100)

\* The Reset button: disabled={isUploading}.
ResetEnabled == ~isUploading

\* startUpload, with t the identifier setInterval returns.
startUpload(t) ==
  /\ StartEnabled
  /\ isUploading' = TRUE
  /\ progress' = 0
  /\ intervalRef' = t
  /\ timers' = timers \cup {t}
  /\ UNCHANGED restOfUpload

\* The interval callback of timer t with the random chunk: setProgress
\* with the updater.
Tick(t, chunk) ==
  /\ t \in timers
  /\ progress' = ProgressAfterTick(progress, chunk)
  /\ isUploading' = UploadingAfterTick(isUploading, progress, chunk)
  /\ timers' = TimersAfterTick(timers, intervalRef, progress, chunk)
  /\ UNCHANGED intervalRef
  /\ UNCHANGED restOfUpload

\* resetProgress
resetProgress ==
  /\ ResetEnabled
  /\ timers' = ClearInterval(timers, intervalRef)
  /\ progress' = 0
  /\ isUploading' = FALSE
  /\ UNCHANGED intervalRef
  /\ UNCHANGED restOfUpload

\* addProgress: progress + 25 >= 100 reads the progress of the render.
addProgress ==
  /\ AddEnabled
  /\ progress' = ProgressAfterAdd(progress)
  /\ isUploading' = IF progress + 25 >= 100 THEN FALSE ELSE isUploading
  /\ UNCHANGED <<intervalRef, timers>>
  /\ UNCHANGED restOfUpload

\* Some interval timer fires.
TickSome == \E t \in timers : \E chunk \in Chunks : Tick(t, chunk)

InitUpload ==
  /\ arr = <<>>
  /\ pc = "ready"
  /\ res = NoResult
  /\ loc = NoResult
  /\ pct = NoQuery
  /\ Mounted
  /\ UiMounted

NextUpload ==
  \/ \E t \in FreshTimers : startUpload(t)
  \/ TickSome
  \/ resetProgress
  \/ addProgress

\* An active interval fires every 300 ms: a tick cannot be put off for ever.
SpecUpload == InitUpload /\ [][NextUpload]_vars /\ WF_vars(TickSome)

(***************************************************************************)
(* MockAIChatSolution: a message list, an input box, and a mock response   *)
(* that arrives one second after a question is sent.                       *)
(***************************************************************************)
MaxMessages == 5

UpperCase ==
  <<"A", "B", "C", "D", "E", "F", "G", "H", "I", "J", "K", "L", "M", "N", "O", "P", "Q", "R", "S", "T", "U", "V", "W", "X", "Y", "Z">>
LowerCase ==
  <<"a", "b", "c", "d", "e", "f", "g", "h", "i", "j", "k", "l", "m", "n", "o", "p", "q", "r", "s", "t", "u", "v", "w", "x", "y", "z">>

\* String.prototype.toLowerCase, for the letters A to Z.
ToLowerCase(s) ==
  [i \in 1..Len(s) |->
     IF \E k \in 1..26 : UpperCase[k] = s[i]
     THEN LowerCase[CHOOSE k \in 1..26 : UpperCase[k] = s[i]]
     ELSE s[i]]

\* String.prototype.includes
Includes(s, sub) ==
  \E i \in 1..(Len(s) - Len(sub) + 1) : SubSeq(s, i, i + Len(sub) - 1) = sub

AverageReply == "The average value in your dataset is 78.3. This represents the central tendency of your data."
TrendReply == "There is a positive trend in your data. Values are generally increasing over time."
MaxReply == "The maximum value in your dataset is 96. This is the highest data point recorded."
MinReply == "The minimum value in your dataset is 42. This is the lowest data point recorded."
CountReply == "There are 150 data points in your dataset."
HelpReply == "I can help you analyze your data! Try asking about:\n- Average or mean values\n- Trends in your data\n- Maximum or minimum values\n- Count of data points\n- Statistical insights"
DefaultReply == "That's an interesting question about your data! Could you be more specific? Try asking about average, trend, max, min, or count."
ErrorReply == "Sorry, I encountered an error processing your question. Please try again."

Resolved(value) == [status |-> "resolved", value |-> value]
Rejected == [status |-> "rejected", value |-> ""]

\* The text the timeout of mockAIResponse resolves with, for the question
\* in lower case.
ReplyTo(q) ==
  IF Includes(q, <<"a", "v", "e", "r", "a", "g", "e">>) \/ Includes(q, <<"m", "e", "a", "n">>) THEN AverageReply
  ELSE IF Includes(q, <<"t", "r", "e", "n", "d">>) THEN TrendReply
  ELSE IF Includes(q, <<"m", "a", "x">>) \/ Includes(q, <<"m", "a", "x", "i", "m", "u", "m">>) THEN MaxReply
  ELSE IF Includes(q, <<"m", "i", "n">>) \/ Includes(q, <<"m", "i", "n", "i", "m", "u", "m">>) THEN MinReply
  ELSE IF Includes(q, <<"c", "o", "u", "n", "t">>) \/ Includes(q, <<"h", "o", "w", " ", "m", "a", "n", "y">>) THEN CountReply
  ELSE IF Includes(q, <<"h", "e", "l", "p">>) \/ Includes(q, <<"?">>) THEN HelpReply
  ELSE DefaultReply

\* Mutant: the promise is rejected when no keyword matches.
mockAIResponseRejectsUnknown(question) ==
  IF ReplyTo(ToLowerCase(question)) = DefaultReply
  THEN Rejected
  ELSE Resolved(ReplyTo(ToLowerCase(question)))

\* mockAIResponse(question): how the promise is settled when its timeout
\* fires.  The executor only ever calls resolve.
mockAIResponse(question) == Resolved(ReplyTo(ToLowerCase(question)))

\* The texts typed into the input box: "", "  ", "mean", " Trend ",
\* "min max", "minimum", "how many", "?", "hi".
ChatTexts ==
  {<<>>,
   <<" ", " ">>,
   <<"m", "e", "a", "n">>,
   <<" ", "T", "r", "e", "n", "d", " ">>,
   <<"m", "i", "n", " ", "m", "a", "x">>,
   <<"m", "i", "n", "i", "m", "u", "m">>,
   <<"h", "o", "w", " ", "m", "a", "n", "y">>,
   <<"?">>,
   <<"h", "i">>}

\* Mutant: the test of the input is left out of the guard of handleSend.
SendAcceptedBlankToo(inp, ld) == ~ld

\* The guard of handleSend: if (!input.trim() || loading) return.
SendAccepted(inp, ld) == ~(Trim(inp) = <<>> \/ ld)

restOfChat ==
  <<analyzerVars, shellVars, uploadVars, widgetVars, listVars, exampleVars>>

\* onChange of the input box, which is disabled while loading.
setInput(val) ==
  /\ ~chatLoading
  /\ input' = val
  /\ UNCHANGED <<messages, chatLoading, inFlight>>
  /\ UNCHANGED restOfChat

\* handleSend up to its await: the user message is appended, the input is
\* emptied, loading is set and mockAIResponse(input) is started.
handleSend ==
  /\ Len(messages) + 2 <= MaxMessages
  /\ IF SendAccepted(input, chatLoading)
     THEN /\ messages' =
               Append(messages, [type |-> "user", content |-> Typed(Trim(input))])
          /\ input' = <<>>
          /\ chatLoading' = TRUE
          /\ inFlight' = Append(inFlight, input)
     ELSE UNCHANGED chatVars
  /\ UNCHANGED restOfChat

\* What handleSend appends once the promise has settled: the reply in the
\* try block, the apology in the catch block.
MessageAfter(outcome) ==
  IF outcome.status = "resolved"
  THEN [type |-> "ai", content |-> Literal(outcome.value)]
  ELSE [type |-> "ai", content |-> Literal(ErrorReply)]

\* The timeout of the oldest pending mock response fires, the promise
\* settles and handleSend resumes after its await: try or catch, then
\* finally.
SettleResponse ==
  /\ inFlight # <<>>
  /\ messages' = Append(messages, MessageAfter(mockAIResponse(Head(inFlight))))
  /\ chatLoading' = FALSE
  /\ inFlight' = Tail(inFlight)
  /\ UNCHANGED input
  /\ UNCHANGED restOfChat

InitChat ==
  /\ arr = <<>>
  /\ pc = "ready"
  /\ res = NoResult
  /\ loc = NoResult
  /\ pct = NoQuery
  /\ Mounted
  /\ UiMounted

NextChat ==
  \/ \E val \in ChatTexts : setInput(val)
  \/ handleSend
  \/ SettleResponse

\* The timeout of a pending mock response fires after one second.
SpecChat == InitChat /\ [][NextChat]_vars /\ WF_vars(SettleResponse)

(***************************************************************************)
(* KeyboardNavigationExample: the arrow keys move the selected row of a    *)
(* table of four rows.                                                     *)
(***************************************************************************)
\* data.length
RowCount == 4

\* e.key: the keys handleKeyDown tests for, and two others.
Keys == {"ArrowDown", "ArrowUp", "Enter", " ", "a", "Tab"}

\* Mutant: ArrowDown is limited by data.length instead of data.length - 1.
SelectedRowAfterKeyPastEnd(prev, key) ==
  IF key = "ArrowDown" THEN Min(prev + 1, RowCount)
  ELSE IF key = "ArrowUp" THEN Max(prev - 1, 0)
  ELSE prev

\* selectedRow after handleKeyDown: the updaters of the two arrow cases;
\* Enter and ' ' only call alert, the default case does nothing.
SelectedRowAfterKey(prev, key) ==
  IF key = "ArrowDown" THEN Min(prev + 1, RowCount - 1)
  ELSE IF key = "ArrowUp" THEN Max(prev - 1, 0)
  ELSE prev

restOfWidgets ==
  <<analyzerVars, shellVars, uploadVars, chatVars, listVars, exampleVars>>

\* handleKeyDown(e) with e.key = key
handleKeyDown(key) ==
  /\ selectedRow' = SelectedRowAfterKey(selectedRow, key)
  /\ UNCHANGED <<dataSize, scrollTop, visibleRange>>
  /\ UNCHANGED restOfWidgets

(***************************************************************************)
(* VirtualScrollExample: of dataSize items of 50px in a container of       *)
(* 400px, the slice visibleRange is rendered.                              *)
(***************************************************************************)
MaxDataSize == 10
ItemHeight == 50
ContainerHeight == 400

\* The largest scroll offset of the container: the height of the content
\* less the height of the container.
MaxScrollTop(size) == Max(0, size * ItemHeight - ContainerHeight)

\* The dataSize props of the model: the small lists and the default.
DataSizes == 0..MaxDataSize \cup {DefaultDataSize}

\* The scroll offsets of the model, in whole pixels: every offset of a
\* small list, and those within two items of either end of a long one.
ScrollOffsets(size) ==
  IF size <= 2 * MaxDataSize THEN 0..MaxScrollTop(size)
  ELSE 0..(2 * ItemHeight)
         \cup (MaxScrollTop(size) - 2 * ItemHeight)..MaxScrollTop(size)

\* Math.ceil(a / b) for whole a >= 0 and b > 0
CeilDiv(a, b) == (a + b - 1) \div b

\* const start = Math.floor(scrollTop / itemHeight)
VisibleStart(top) == top \div ItemHeight

\* Mutant: the extra item is left out of end.
VisibleEndWithoutExtra(start) == start + CeilDiv(ContainerHeight, ItemHeight)

\* const end = start + Math.ceil(containerHeight / itemHeight) + 1
VisibleEnd(start) == start + CeilDiv(ContainerHeight, ItemHeight) + 1

\* data.slice(visibleRange.start, visibleRange.end), as the indices kept.
VisibleItems ==
  {i \in 0..(dataSize - 1) : visibleRange.start <= i /\ i < visibleRange.end}

\* handleScroll(e) with e.currentTarget.scrollTop = top
handleScroll(top) ==
  /\ scrollTop' = top
  /\ visibleRange' =
       [start |-> VisibleStart(top), end |-> VisibleEnd(VisibleStart(top))]
  /\ UNCHANGED <<selectedRow, dataSize>>
  /\ UNCHANGED restOfWidgets

InitWidgets ==
  /\ arr = <<>>
  /\ pc = "ready"
  /\ res = NoResult
  /\ loc = NoResult
  /\ pct = NoQuery
  /\ Mounted
  /\ UploadMounted
  /\ ChatMounted
  /\ ListMounted
  /\ ExampleMounted
  /\ \E size \in DataSizes : WidgetsMountedWith(size)

NextWidgets ==
  \/ \E key \in Keys : handleKeyDown(key)
  \/ \E top \in ScrollOffsets(dataSize) : handleScroll(top)

SpecWidgets == InitWidgets /\ [][NextWidgets]_vars

(***************************************************************************)
(* DemoList: an effect with the dependency [items] shows the skeleton and  *)
(* starts a timeout of 1500ms that stores items and ends the loading.      *)
(***************************************************************************)
MaxArrayId == 3
ArrayIds == 1..MaxArrayId

\* The default value of the items parameter.
DefaultItems == <<"Apple", "Banana", "Cherry", "Date", "Elderberry">>

\* The items props of the model: omitted, or an array the parent keeps.
ItemsProps ==
  {null, ArrayOf("prop", 0, <<"Kiwi">>), ArrayOf("prop", 0, <<"Kiwi", "Lime">>)}

\* Object.is(a, b) of two arrays
SameArray(a, b) == a.origin = b.origin /\ a.id = b.id

\* The default arrays the component still holds: in the dependencies of
\* the effect and in the data state.
HeldArrayIds(deps, dat) ==
  {a.id : a \in {x \in (IF IsNull(deps) THEN {} ELSE {deps}) \cup {dat} :
                  x.origin = "default"}}

\* The array literal of the default parameter creates an array on every
\* call of the component.
NewDefaultItems(deps, dat) ==
  ArrayOf("default",
          CHOOSE n \in ArrayIds \ HeldArrayIds(deps, dat) :
            \A k \in ArrayIds \ HeldArrayIds(deps, dat) : n <= k,
          DefaultItems)

\* items as the call of the component binds it: the prop, or the default.
ItemsOfRender(prop, deps, dat) ==
  IF IsNull(prop) THEN NewDefaultItems(deps, dat) ELSE prop

\* The effect runs after the first render, and after a render whose items
\* is not the array of the previous run.
EffectRuns(deps, items) == IsNull(deps) \/ ~SameArray(deps, items)

restOfLoading ==
  <<analyzerVars, shellVars, uploadVars, chatVars, widgetVars>>

\* A render of DemoList with its effect: the cleanup of the previous run
\* clears its timeout, setLoading(true), and a new timeout holding items.
\* setLoading(true) asks for another render only if it changes the state.
DemoListRender ==
  /\ listRender
  /\ IF EffectRuns(listDeps, ItemsOfRender(listItems, listDeps, listData))
     THEN /\ listLoading' = TRUE
          /\ listTimer' =
               [items |-> ItemsOfRender(listItems, listDeps, listData)]
          /\ listDeps' = ItemsOfRender(listItems, listDeps, listData)
          /\ listRender' = ~listLoading
     ELSE /\ listRender' = FALSE
          /\ UNCHANGED <<listLoading, listTimer, listDeps>>
  /\ UNCHANGED <<listItems, listData>>
  /\ UNCHANGED exampleVars
  /\ UNCHANGED restOfLoading

\* The timeout of the effect fires: setData(items); setLoading(false).
DemoListTimeout ==
  /\ ~IsNull(listTimer)
  /\ listData' = listTimer.items
  /\ listLoading' = FALSE
  /\ listTimer' = null
  /\ listRender' = TRUE
  /\ UNCHANGED <<listItems, listDeps>>
  /\ UNCHANGED exampleVars
  /\ UNCHANGED restOfLoading

(***************************************************************************)
(* LoadingExample: an effect loads the data after 2s, and the Reload Data  *)
(* button loads it again.                                                  *)
(***************************************************************************)
LoadedText == Literal("Your data has been successfully loaded from the API!")
ReloadedText == Literal("Data reloaded at ")

\* The timer id setTimeout returns: one no pending timeout has.
NewExampleTimerId(ts) ==
  CHOOSE n \in TimerIds : n \notin {t.id : t \in ts}
                            /\ \A k \in TimerIds : k < n => k \in {t.id : t \in ts}

\* The cleanup of the effect clears the timeout of the effect; what the
\* click handler returns is never called.
TimersAfterUnmount(ts) == {t \in ts : t.reload}

\* A timeout of LoadingExample fires: setData(...); setLoading(false).
\* The setters of an unmounted component change nothing.
LoadingTimeout(t) ==
  /\ t \in exTimers
  /\ exTimers' = exTimers \ {t}
  /\ IF exMounted
     THEN /\ exData' = IF t.reload THEN ReloadedText ELSE LoadedText
          /\ exLoading' = FALSE
          /\ UNCHANGED exLate
     ELSE /\ exLate' = TRUE
          /\ UNCHANGED <<exData, exLoading>>
  /\ UNCHANGED exMounted
  /\ UNCHANGED listVars
  /\ UNCHANGED restOfLoading

\* onClick of the Reload Data button, which is rendered when not loading.
ReloadData ==
  /\ exMounted
  /\ ~exLoading
  /\ exLoading' = TRUE
  /\ exTimers' =
       exTimers \cup {ExampleTimer(NewExampleTimerId(exTimers), TRUE)}
  /\ UNCHANGED <<exMounted, exData, exLate>>
  /\ UNCHANGED listVars
  /\ UNCHANGED restOfLoading

\* The parent removes LoadingExample.
LoadingUnmount ==
  /\ exMounted
  /\ exMounted' = FALSE
  /\ exTimers' = TimersAfterUnmount(exTimers)
  /\ UNCHANGED <<exData, exLoading, exLate>>
  /\ UNCHANGED listVars
  /\ UNCHANGED restOfLoading

LoadingTimeoutSome == \E t \in exTimers : LoadingTimeout(t)

InitLoading ==
  /\ arr = <<>>
  /\ pc = "ready"
  /\ res = NoResult
  /\ loc = NoResult
  /\ pct = NoQuery
  /\ Mounted
  /\ UploadMounted
  /\ ChatMounted
  /\ WidgetsMounted
  /\ \E items \in ItemsProps, isLoading \in BOOLEAN :
       ListMountedWith(items, isLoading)
  /\ ExampleMounted

NextLoading ==
  \/ DemoListRender
  \/ DemoListTimeout
  \/ LoadingTimeoutSome
  \/ ReloadData
  \/ LoadingUnmount

\* A render that is due is made, and a timeout that is pending fires.
SpecLoading ==
  /\ InitLoading
  /\ [][NextLoading]_vars
  /\ WF_vars(DemoListRender)
  /\ WF_vars(DemoListTimeout)
  /\ WF_vars(LoadingTimeoutSome)

(***************************************************************************)
(* What the specification expects of an element, stated without the code:  *)
(* the strings of the model are classified one by one.                     *)
(***************************************************************************)
\* The numeric strings of the model and the number each one denotes.
NumericTexts ==
  {<<<<"8", "5", ".", "5">>, Fin(171, 2)>>,
   <<<<" ", "4", " ">>, Int2Num(4)>>,
   <<<<"1", "0", "0">>, Int2Num(100)>>,
   <<InfinityChars, PInf>>,
   <<<<"-">> \o InfinityChars, NInf>>}

BlankTexts == {<<>>, <<" ", "\t">>}
NonNumericTexts == {<<"a", "b", "c">>, <<"N", "a", "N">>}

TextValue(s) == (CHOOSE e \in NumericTexts : e[1] = s)[2]
IsNumericText(x) == x.t = "string" /\ \E e \in NumericTexts : e[1] = x.str

\* The element is a number other than NaN, or text denoting one.
DenotesNumber(x) == (x.t = "number" /\ x.num.k # "nan") \/ IsNumericText(x)
DenotedNumber(x) == IF x.t = "number" THEN x.num ELSE TextValue(x.str)

\* The element is null/missing, a boolean, blank text or non-numeric text.
NotNumeric(x) ==
  \/ x.t \in {"null", "undefined", "boolean"}
  \/ x.t = "string" /\ x.str \in BlankTexts \cup NonNumericTexts

\* The element denotes a finite number.
DenotesFinite(x) == DenotesNumber(x) /\ DenotedNumber(x).k = "fin"

HowMany(s, v) == Cardinality({i \in 1..Len(s) : s[i] = v})
Values(s) == {s[i] : i \in 1..Len(s)}
SameBag(s, t) == \A v \in Values(s) \cup Values(t) : HowMany(s, v) = HowMany(t, v)

\* The numbers the elements of a denote, in order.
NumbersOf(a) ==
  LET kept == SelectSeq(a, DenotesNumber)
  IN  [i \in 1..Len(kept) |-> DenotedNumber(kept[i])]

\* The finite numbers the elements of a denote, in order.
FiniteNumbersOf(a) ==
  LET kept == SelectSeq(a, DenotesFinite)
  IN  [i \in 1..Len(kept) |-> DenotedNumber(kept[i])]

Returned == pc = "returned"
Succeeded == pc = "returned" /\ IsSuccess(res)

(***************************************************************************)
(* C1: analyze returns the error record, carrying exactly the message      *)
(* "No valid numeric values found." and no statistics, if and only if no   *)
(* element of the input coerces to a number; in particular for the empty   *)
(* input and for every input made only of null/missing, blank text,        *)
(* non-numeric text and booleans.  The call always returns a value: an     *)
(* error record or a success record.  An element coerces to a number when  *)
(* it is a number other than NaN or text denoting one; the infinities      *)
(* count as numbers here, as they do for the code (see C2).                *)
(***************************************************************************)
C1_ErrorIffNothingCoerces ==
  Returned =>
    /\ IsError(res) \/ IsSuccess(res)
    /\ IsError(res) <=> (\A i \in 1..Len(arr) : ~DenotesNumber(arr[i]))
    /\ IsError(res) =>
         DOMAIN res = {"error"} /\ res.error = "No valid numeric values found."
    /\ (\A i \in 1..Len(arr) : NotNumeric(arr[i])) => IsError(res)

C1_Witness ==
  /\ Returned /\ IsError(res) /\ Len(arr) = 2
  /\ arr[1].t = "string" /\ arr[1].str \in BlankTexts
  /\ arr[2].t = "boolean"

(***************************************************************************)
(* C2: an element is kept iff it is a finite number (kept as it is) or a   *)
(* string whose trimmed form is non-empty and whose numeric parse is a     *)
(* finite number (the parsed value kept); every other element is           *)
(* discarded, the infinities included.  So the sorted nums holds exactly   *)
(* the finite numbers the input denotes, and the call fails when there is  *)
(* none.                                                                   *)
(***************************************************************************)
C2_KeepsExactlyFinite ==
  Returned =>
    IF \A i \in 1..Len(arr) : ~DenotesFinite(arr[i])
    THEN IsError(res)
    ELSE IsSuccess(res) /\ SameBag(res.nums, FiniteNumbersOf(arr))

\* What the code does: it keeps every number other than NaN, so the
\* infinities too, whether given as numbers or as text.
C2_KeepsExactlyNonNaN ==
  Returned =>
    IF \A i \in 1..Len(arr) : ~DenotesNumber(arr[i])
    THEN IsError(res)
    ELSE IsSuccess(res) /\ SameBag(res.nums, NumbersOf(arr))

(***************************************************************************)
(* C3: when analyze succeeds, count is the number of input elements that   *)
(* coerce to a number: a discarded element lowers count and causes no      *)
(* error as long as one element is kept.  For a non-empty sequence of      *)
(* finite numbers analyze succeeds and count is the input length.          *)
(* Coercing to a number is as in C1.                                       *)
(***************************************************************************)
C3_CountIsNumberCoerced ==
  Returned =>
    LET n == Cardinality({i \in 1..Len(arr) : DenotesNumber(arr[i])})
    IN  /\ IsSuccess(res) => res.count = n
        /\ n >= 1 => IsSuccess(res)
        /\ (Len(arr) >= 1 /\ \A i \in 1..Len(arr) :
              arr[i].t = "number" /\ arr[i].num.k = "fin")
             => IsSuccess(res) /\ res.count = Len(arr)

C3_Witness ==
  /\ Succeeded /\ Len(arr) = 2 /\ res.count = 1
  /\ \E i \in 1..2 : NotNumeric(arr[i])

(***************************************************************************)
(* C4: on success the returned fields satisfy min <= median <= max and     *)
(* min <= average <= max, median and average being the rounded values of   *)
(* the record and min and max the exact ones.  Stated here for the inputs  *)
(* whose coerced values are all finite, so that a violation does not rest  *)
(* on the infinities of C2.                                                *)
(***************************************************************************)
AllFinite(s) == \A i \in 1..Len(s) : s[i].k = "fin"

C4_ReturnedWithinMinMax ==
  (Succeeded /\ AllFinite(res.nums)) =>
    /\ Le(res.min, res.median) /\ Le(res.median, res.max)
    /\ Le(res.min, res.avg) /\ Le(res.avg, res.max)

\* What holds of the code, in exact arithmetic: the unrounded median and
\* average of finite values lie within [min, max].
C4_UnroundedWithinMinMax ==
  (Succeeded /\ AllFinite(res.nums)) =>
    /\ Le(loc.min, loc.median) /\ Le(loc.median, loc.max)
    /\ Le(loc.min, loc.avg) /\ Le(loc.avg, loc.max)

(***************************************************************************)
(* C5: the median analyze computes (before rounding) is the middle order   *)
(* statistic of the coerced values when count is odd and the mean of the   *)
(* two middle order statistics when count is even, whatever the order of   *)
(* the input; any arrangement of 1,2,3,4,5 returns 3 and any arrangement   *)
(* of 1,2,3,4 returns 2.5.                                                 *)
(***************************************************************************)
\* The k-th smallest value of vals (k in 1..Len(vals)), by counting.
OrderStat(vals, k) ==
  CHOOSE v \in Values(vals) :
    /\ Cardinality({i \in 1..Len(vals) : Lt(vals[i], v)}) < k
    /\ k <= Cardinality({i \in 1..Len(vals) : Le(vals[i], v)})

ExpectedMedian(vals) ==
  IF Len(vals) % 2 = 1
  THEN OrderStat(vals, (Len(vals) + 1) \div 2)
  ELSE Div(Add(OrderStat(vals, Len(vals) \div 2),
               OrderStat(vals, Len(vals) \div 2 + 1)), Int2Num(2))

C5_MedianOfSorted ==
  Succeeded =>
    /\ loc.median = ExpectedMedian(NumbersOf(arr))
    /\ SameBag(arr, NumSeq(<<1, 2, 3, 4, 5>>)) => res.median = Int2Num(3)
    /\ SameBag(arr, NumSeq(<<1, 2, 3, 4>>)) => res.median = Fin(5, 2)

C5_Witness ==
  Succeeded /\ arr = NumSeq(<<4, 1, 3, 2>>) /\ res.median = Fin(5, 2)

(***************************************************************************)
(* C6: percentile(0) is min, percentile(100) is max, and for an odd count  *)
(* percentile(50) is the exact (unrounded) median.                         *)
(***************************************************************************)
Asked == pc = "returned" /\ pct.asked

C6_PercentileEndsAndMiddle ==
  Asked =>
    /\ pct.p = Int2Num(0) => pct.value = JNumber(res.min)
    /\ pct.p = Int2Num(100) => pct.value = JNumber(res.max)
    /\ (pct.p = Int2Num(50) /\ res.count % 2 = 1)
         => pct.value = JNumber(loc.median)

C6_Witness ==
  /\ Asked /\ pct.p = Int2Num(50) /\ res.count = 3
  /\ res.min # res.max /\ loc.median # res.median
  /\ pct.value = JNumber(loc.median)

(***************************************************************************)
(* C7: percentile(p) is NaN for every rank p < 0 or p > 100, and a defined *)
(* number (not NaN, not undefined) for every p in [0, 100], for every      *)
(* count >= 1.                                                             *)
(***************************************************************************)
InRange(p) == Le(Int2Num(0), p) /\ Le(p, Int2Num(100))

C7_DefinedExactlyInRange ==
  Asked =>
    IF Lt(pct.p, Int2Num(0)) \/ Gt(pct.p, Int2Num(100))
    THEN pct.value = JNumber(NaN)
    ELSE pct.value.t = "number" /\ ~IsNaN(pct.value.num)

\* The same, for the inputs whose coerced values are all finite.
C7_DefinedInRangeOnFinite ==
  (Asked /\ AllFinite(res.nums)) => C7_DefinedExactlyInRange

(***************************************************************************)
(* C8: for p in [0, 100], with idx = (p/100)*(count-1): percentile(p) is   *)
(* the element at idx when idx is an integer, and otherwise                *)
(* sorted[floor(idx)]*(1-w) + sorted[ceil(idx)]*w with w = idx-floor(idx); *)
(* floor(idx) and ceil(idx) are within 0..count-1 and the result lies      *)
(* between the two neighbouring elements.                                  *)
(***************************************************************************)
ExpectedIdx(count, p) == Fin(p.n * (count - 1), 100 * p.d)
FloorOf(x) == x.n \div x.d
CeilOf(x) == -((-x.n) \div x.d)

C8_Interpolation ==
  (Asked /\ InRange(pct.p)) =>
    LET idx == ExpectedIdx(res.count, pct.p)
        lo == res.nums[FloorOf(idx) + 1]
        hi == res.nums[CeilOf(idx) + 1]
        w == Sub(idx, Int2Num(FloorOf(idx)))
    IN  /\ pct.idx = idx
        /\ 0 <= FloorOf(idx) /\ CeilOf(idx) <= res.count - 1
        /\ pct.value.t = "number"
        /\ pct.value.num =
             IF idx.d = 1 THEN lo
             ELSE Add(Mul(lo, Sub(Int2Num(1), w)), Mul(hi, w))
        /\ Le(lo, pct.value.num) /\ Le(pct.value.num, hi)

\* The same, for the inputs whose coerced values are all finite.
C8_InterpolationOnFinite ==
  (Asked /\ AllFinite(res.nums)) => C8_Interpolation

(***************************************************************************)
(* C9: valuesAboveAverage holds exactly the coerced values strictly        *)
(* greater than the unrounded average and valuesBelowAverage exactly those *)
(* strictly less, duplicates kept, each in ascending order; a value equal  *)
(* to the unrounded average is in neither, also when the rounded average   *)
(* of the record differs from it.                                          *)
(***************************************************************************)
RECURSIVE Total(_)
Total(s) == IF s = <<>> THEN Int2Num(0) ELSE Add(Head(s), Total(Tail(s)))

\* The unrounded average of the numbers the input denotes.
ExpectedAvg(a) == Div(Total(NumbersOf(a)), Int2Num(Len(NumbersOf(a))))

Ascending(s) == \A i, j \in 1..Len(s) : i < j => Le(s[i], s[j])

C9_AboveBelowAverage ==
  Succeeded =>
    LET avg == ExpectedAvg(arr)
        vals == NumbersOf(arr)
    IN  /\ SameBag(res.aboveAvg, SelectSeq(vals, LAMBDA v : Gt(v, avg)))
        /\ SameBag(res.belowAvg, SelectSeq(vals, LAMBDA v : Lt(v, avg)))
        /\ Ascending(res.aboveAvg) /\ Ascending(res.belowAvg)
        /\ \A v \in Values(vals) :
             StrictEq(v, avg) => v \notin Values(res.aboveAvg \o res.belowAvg)

C9_Witness ==
  /\ Succeeded /\ res.aboveAvg # <<>> /\ res.belowAvg # <<>>
  /\ \E i \in 1..Len(res.nums) : StrictEq(res.nums[i], ExpectedAvg(arr))
  /\ res.avg # ExpectedAvg(arr)

(***************************************************************************)
(* C10: on success count = |valuesAboveAverage| + |valuesBelowAverage| +   *)
(* the number of coerced values equal to the unrounded average.            *)
(***************************************************************************)
EqualToAvg(a) ==
  Cardinality({i \in 1..Len(NumbersOf(a)) :
                 StrictEq(NumbersOf(a)[i], ExpectedAvg(a))})

C10_CountPartition ==
  Succeeded =>
    res.count = Len(res.aboveAvg) + Len(res.belowAvg) + EqualToAvg(arr)

\* The same, for the inputs whose coerced values are all finite.
C10_CountPartitionOnFinite ==
  (Succeeded /\ AllFinite(res.nums)) => C10_CountPartition

(***************************************************************************)
(* Rounding to two decimals, stated without the code's round: the          *)
(* hundredth nearest to x, by integer division.                            *)
(***************************************************************************)
\* A tie goes towards +Infinity: floor(100 x + 1/2) / 100.
NearestHundredthTiesUp(x) ==
  IF x.k = "fin" THEN Fin((200 * x.n + x.d) \div (2 * x.d), 100) ELSE x

\* A tie goes away from zero: sign(x) * floor(100 |x| + 1/2) / 100.
NearestHundredthTiesAway(x) ==
  IF x.k # "fin" THEN x
  ELSE IF x.n >= 0 THEN Fin((200 * x.n + x.d) \div (2 * x.d), 100)
  ELSE Fin(-((200 * (-x.n) + x.d) \div (2 * x.d)), 100)

\* r is the square root of v rounded to two decimals: r = k/100 with
\* k - 1/2 <= 100 sqrt(v) < k + 1/2; the special values pass through.
Hundredths(r) == r.n * (100 \div r.d)
IsRoundedRoot(r, v) ==
  IF v.k # "fin" THEN r = v
  ELSE /\ r.k = "fin" /\ r.n >= 0 /\ 100 % r.d = 0
       /\ Hundredths(r) >= 1 =>
            Le(Int2Num((2 * Hundredths(r) - 1) * (2 * Hundredths(r) - 1)),
               Mul(Int2Num(40000), v))
       /\ Lt(Mul(Int2Num(40000), v),
             Int2Num((2 * Hundredths(r) + 1) * (2 * Hundredths(r) + 1)))

(***************************************************************************)
(* C11: on success the returned range equals the returned max minus the    *)
(* returned min.  (Stated for the inputs whose coerced values are all      *)
(* finite.)                                                                *)
(***************************************************************************)
C11_RangeIsMaxMinusMin ==
  (Succeeded /\ AllFinite(res.nums)) => res.range = Sub(res.max, res.min)

\* What the code returns instead: max - min rounded to two decimals, next
\* to a min and a max that are not rounded.
C11_RangeIsRoundedDifference ==
  Succeeded => res.range = NearestHundredthTiesUp(Sub(res.max, res.min))

(***************************************************************************)
(* C12, as the specification states it: the returned sum, average, range,  *)
(* median and populationStandardDeviation are each the unrounded value     *)
(* rounded to two decimals, a tie going away from zero, for every input,   *)
(* negative statistics included.                                           *)
(***************************************************************************)
C12_RoundsHalfAwayFromZero ==
  Succeeded =>
    /\ res.sum = NearestHundredthTiesAway(loc.sum)
    /\ res.avg = NearestHundredthTiesAway(loc.avg)
    /\ res.range = NearestHundredthTiesAway(loc.range)
    /\ res.median = NearestHundredthTiesAway(loc.median)
    /\ IsRoundedRoot(res.stddev, loc.variance)

(***************************************************************************)
(* C12, amended: the returned sum, average, range, median and              *)
(* populationStandardDeviation are each the unrounded value multiplied by  *)
(* 100, rounded to the nearest integer with a tie going towards +Infinity  *)
(* (Math.round), and divided by 100.  A negative tie is therefore rounded  *)
(* towards zero: -0.005 gives 0, not -0.01.                                *)
(***************************************************************************)
C12_RoundsHalfUp ==
  Succeeded =>
    /\ res.sum = NearestHundredthTiesUp(loc.sum)
    /\ res.avg = NearestHundredthTiesUp(loc.avg)
    /\ res.range = NearestHundredthTiesUp(loc.range)
    /\ res.median = NearestHundredthTiesUp(loc.median)
    /\ IsRoundedRoot(res.stddev, loc.variance)

\* A negative tie: the unrounded sum is -0.005 and the returned sum is 0.
C12_Witness ==
  Succeeded /\ loc.sum = Fin(-1, 200) /\ res.sum = Int2Num(0)

(***************************************************************************)
(* C13: on success populationStandardDeviation is the square root of the   *)
(* sum of the squared deviations from the unrounded average divided by     *)
(* count (not count - 1), rounded to two decimals; for the input           *)
(* [2, 4, 4, 4, 5, 5, 7, 9] it is exactly 2, and for any single-element    *)
(* input it is 0.                                                          *)
(***************************************************************************)
\* The population variance of the numbers the input denotes.
ExpectedVariance(a) ==
  Div(Total([i \in 1..Len(NumbersOf(a)) |->
               Square(Sub(NumbersOf(a)[i], ExpectedAvg(a)))]),
      Int2Num(Len(NumbersOf(a))))

C13_PopulationStdDev ==
  Succeeded =>
    /\ loc.variance = ExpectedVariance(arr)
    /\ IsRoundedRoot(res.stddev, loc.variance)
    /\ arr = NumSeq(<<2, 4, 4, 4, 5, 5, 7, 9>>) => res.stddev = Int2Num(2)
    /\ Len(arr) = 1 => res.stddev = Int2Num(0)

\* The same, for the inputs whose coerced values are all finite.
C13_PopulationStdDevOnFinite ==
  (Succeeded /\ AllFinite(res.nums)) => C13_PopulationStdDev

(***************************************************************************)
(* C14: on success min and max are returned exactly (unrounded) and are    *)
(* the smallest and the largest coerced value under numeric ordering, for  *)
(* any order of the input and for inputs mixing numbers and numeric        *)
(* strings: every coerced value v satisfies min <= v <= max.               *)
(***************************************************************************)
C14_MinMaxExact ==
  Succeeded =>
    /\ res.min \in Values(NumbersOf(arr))
    /\ res.max \in Values(NumbersOf(arr))
    /\ \A v \in Values(NumbersOf(arr)) : Le(res.min, v) /\ Le(v, res.max)

\* Numbers and numeric strings, out of order; as text "100" sorts before
\* "50", as a number it is the largest.
C14_Witness ==
  /\ Succeeded /\ arr = exampleDatasets.mixed
  /\ arr[1].t = "string" /\ arr[2].t = "number"
  /\ res.min = Int2Num(50) /\ res.max = Int2Num(100)

(***************************************************************************)
(* C15: analyze on the mixed example ["100", 50, null, "abc", 75, "85.5"]  *)
(* succeeds and keeps exactly the values 100, 50, 75 and 85.5: count = 4,  *)
(* min = 50, max = 100, sum = 310.5 and average = 77.63.                   *)
(***************************************************************************)
C15_MixedExample ==
  (Returned /\ arr = exampleDatasets.mixed) =>
    /\ IsSuccess(res)
    /\ SameBag(res.nums,
               <<Int2Num(100), Int2Num(50), Int2Num(75), Fin(171, 2)>>)
    /\ res.count = 4
    /\ res.min = Int2Num(50) /\ res.max = Int2Num(100)
    /\ res.sum = Fin(621, 2)
    /\ res.avg = Fin(7763, 100)

C15_Witness ==
  /\ Returned /\ arr = exampleDatasets.mixed
  /\ Len(arr) = 6 /\ arr[3] = JNull /\ IsSuccess(res) /\ res.count = 4

(***************************************************************************)
(* C17: the result of analyze does not depend on the order of the input    *)
(* elements: a permutation of the input gives the same error, or the same  *)
(* count, sum, average, min, max, range, median, standard deviation,       *)
(* above/below sequences and percentile values.  Checked for every         *)
(* exchange of two elements and for the reversal; the exchanges generate   *)
(* the permutations, and the bounded inputs are closed under them.         *)
(***************************************************************************)
Exchange(a, i, j) ==
  [k \in 1..Len(a) |-> IF k = i THEN a[j] ELSE IF k = j THEN a[i] ELSE a[k]]

Reversed(a) == [k \in 1..Len(a) |-> a[Len(a) + 1 - k]]

Rearrangements(a) ==
  {Exchange(a, i, j) : i, j \in 1..Len(a)} \cup {Reversed(a)}

SamePercentiles(r1, r2) ==
  IsSuccess(r1) =>
    \A p \in PercentileRanks : Percentile(r1.nums, p) = Percentile(r2.nums, p)

C17_OrderIndependent ==
  (Returned /\ pct = NoQuery) =>
    \A b \in Rearrangements(arr) :
      analyze(b) = res /\ SamePercentiles(res, analyze(b))

\* An input out of order, with distinct values.
C17_Witness ==
  /\ Succeeded /\ arr = NumSeq(<<4, 1, 2>>)
  /\ res.nums = <<Int2Num(1), Int2Num(2), Int2Num(4)>>
  /\ res.median = Int2Num(2)

(***************************************************************************)
(* The DataAnalyzer component: what is shown                               *)
(***************************************************************************)

\* No element of a is a number or text denoting one.
NoNumericValue(a) == \A i \in 1..Len(a) : ~DenotesNumber(a[i])

C18_ArgumentUnchangedByCall == [][arr' = arr]_vars

(***************************************************************************)
(* C19: after runAnalysis on data with no numeric value, error holds the   *)
(* message and result is null; after runAnalysis on data with at least one *)
(* numeric value, result is set and error is null; and in every reachable  *)
(* state result and error are never both non-null.                         *)
(***************************************************************************)
C19_ResultOrError ==
  /\ [](IsNull(result) \/ IsNull(error))
  /\ [][runAnalysis =>
          IF NoNumericValue(DataArray')
          THEN error' = [message |-> "No valid numeric values found."]
               /\ IsNull(result')
          ELSE IsSuccess(result') /\ IsNull(error')]_vars

\* An analysis of data without a numeric value has put up the error.
C19_Witness ==
  /\ ~IsNull(call) /\ NoNumericValue(call.passed) /\ DataArray = call.passed
  /\ ~IsNull(error) /\ IsNull(result)

(***************************************************************************)
(* C20: a displayed result never outlives the dataset it was computed      *)
(* from: in every state reachable by dataset selections, custom-input      *)
(* edits and Analyze clicks, a non-null result equals analyze(data) for    *)
(* the data currently held, and a displayed error likewise is the error    *)
(* of analyze(data).                                                       *)
(***************************************************************************)
C20_ResultMatchesData ==
  /\ ~IsNull(result) => result = analyze(DataArray)
  /\ ~IsNull(error) => analyze(DataArray) = [error |-> error.message]

\* What holds instead: what is shown belongs to the array of the last call.
C20_ResultMatchesLastCall ==
  /\ ~IsNull(result) => ~IsNull(call) /\ result = analyze(call.passed)
  /\ ~IsNull(error) =>
       ~IsNull(call) /\ analyze(call.passed) = [error |-> error.message]

(***************************************************************************)
(* C21: UploadProgressSimulator keeps progress within 0..100 in every      *)
(* reachable state, under any sequence of Start Upload, interval ticks     *)
(* (each adding between 5 and 20), +25% and Reset; +25% never raises       *)
(* progress above 100, and a tick that would reach or pass 100 sets it to  *)
(* exactly 100.                                                            *)
(***************************************************************************)
C21_ProgressWithinBounds ==
  /\ [](progress >= 0 /\ progress <= 100)
  /\ [][addProgress => progress' <= 100]_vars
  /\ [][\A t \in timers : \A chunk \in Chunks :
          (Tick(t, chunk) /\ progress + chunk >= 100) => progress' = 100]_vars

\* An upload is one tick short of the end: any chunk passes 100.
C21_Witness == isUploading /\ progress > 100 - MinChunk /\ progress < 100

(***************************************************************************)
(* C22: once Start Upload is clicked the upload completes: while           *)
(* uploading progress never decreases, and (the interval firing and the    *)
(* component mounted) a state with progress = 100 and isUploading = false  *)
(* is reached, after which the interval fires no more and progress stays   *)
(* 100 until Reset.                                                        *)
(***************************************************************************)
UploadComplete == progress = 100 /\ ~isUploading

C22_UploadCompletes ==
  /\ isUploading ~> UploadComplete
  /\ [][(isUploading /\ isUploading') => progress' >= progress]_vars
  /\ [][UploadComplete =>
          /\ timers = {} /\ ~TickSome
          /\ progress' = 100 \/ resetProgress]_vars

\* An upload that was started has completed.
C22_Witness == UploadComplete /\ intervalRef \in TimerIds /\ timers = {}

(***************************************************************************)
(* C23: under the button enablement rules (Start disabled while uploading  *)
(* or at 100, +25% disabled while uploading or at 100, Reset disabled      *)
(* while uploading) at most one interval timer is ever active, a timer is  *)
(* active exactly when isUploading is true, and no tick modifies progress  *)
(* while isUploading is false.                                             *)
(***************************************************************************)
C23_OneTimerWhileUploading ==
  /\ [](Cardinality(timers) <= 1 /\ (timers # {} <=> isUploading))
  /\ [][TickSome => isUploading]_vars

\* A second upload is running: its timer is the only one.
C23_Witness ==
  /\ isUploading /\ timers = {intervalRef} /\ intervalRef # 1
  /\ progress > 0

(***************************************************************************)
(* The chat: what is expected of the message list, stated without the      *)
(* code's keyword tests.                                                   *)
(***************************************************************************)
\* The questions of the model, trimmed, and the reply the first matching
\* keyword rule gives each: "min max" matches max (third rule) before min.
ExpectedReplies ==
  {<<<<"m", "e", "a", "n">>, AverageReply>>,
   <<<<"T", "r", "e", "n", "d">>, TrendReply>>,
   <<<<"m", "i", "n", " ", "m", "a", "x">>, MaxReply>>,
   <<<<"m", "i", "n", "i", "m", "u", "m">>, MinReply>>,
   <<<<"h", "o", "w", " ", "m", "a", "n", "y">>, CountReply>>,
   <<<<"?">>, HelpReply>>,
   <<<<"h", "i">>, DefaultReply>>}

ExpectedReply(q) == (CHOOSE e \in ExpectedReplies : e[1] = q)[2]

IsBlank(s) == \A i \in 1..Len(s) : s[i] \in WhiteSpace

IsPrefix(s, t) == Len(s) <= Len(t) /\ SubSeq(t, 1, Len(s)) = s

UserMessages == {i \in 1..Len(messages) : messages[i].type = "user"}
LaterAiMessages == {i \in 2..Len(messages) : messages[i].type = "ai"}

(***************************************************************************)
(* C24: handleSend does nothing when the input is empty or whitespace or   *)
(* while a reply is pending, so at most one mock response is in flight at  *)
(* any time and the message list is append-only and strictly alternating   *)
(* after the initial greeting: the number of user messages equals the      *)
(* number of later AI messages plus 1 when loading is true and plus 0 when *)
(* loading is false.                                                       *)
(***************************************************************************)
C24_OneInFlightAlternating ==
  /\ [](Len(inFlight) <= 1)
  /\ [](/\ messages[1] = Greeting
        /\ \A i \in 2..Len(messages) :
             messages[i].type = IF i % 2 = 0 THEN "user" ELSE "ai")
  /\ [](Cardinality(UserMessages)
          = Cardinality(LaterAiMessages) + IF chatLoading THEN 1 ELSE 0)
  /\ [][IsPrefix(messages, messages')]_vars
  /\ [][(handleSend /\ (IsBlank(input) \/ chatLoading))
          => UNCHANGED chatVars]_vars

\* The second question has been sent and its reply is pending.
C24_Witness ==
  /\ chatLoading /\ Len(inFlight) = 1 /\ Len(messages) = 4
  /\ messages[4].type = "user"

(***************************************************************************)
(* C25: every accepted send is eventually answered: after handleSend       *)
(* appends a user message and sets loading to true, the mock response      *)
(* always resolves (never rejects), exactly one AI message chosen by the   *)
(* first matching keyword rule is appended, the error-apology message is   *)
(* never appended, and loading returns to false.                           *)
(***************************************************************************)
C25_EverySendAnswered ==
  /\ chatLoading ~> ~chatLoading
  /\ [][(chatLoading /\ ~chatLoading') =>
          messages' =
            Append(messages,
                   [type |-> "ai",
                    content |-> Literal(ExpectedReply(
                                  messages[Len(messages)].content.chars))])]_vars
  /\ [][(messages' # messages /\ chatLoading) => ~chatLoading']_vars
  /\ [](\A i \in 1..Len(messages) : messages[i].content # Literal(ErrorReply))

\* "min max" was asked and answered by the max rule, which comes first.
C25_Witness ==
  /\ ~chatLoading /\ Len(messages) >= 3
  /\ messages[2].content = Typed(<<"m", "i", "n", " ", "m", "a", "x">>)
  /\ messages[3].content = Literal(MaxReply)

(***************************************************************************)
(* C26: in KeyboardNavigationExample selectedRow is always a valid row     *)
(* index (0..data.length-1) after any sequence of key presses: ArrowDown   *)
(* moves down by one but stays on the last row, ArrowUp moves up by one    *)
(* but stays on row 0, and Enter, Space and all other keys leave           *)
(* selectedRow unchanged.                                                  *)
(***************************************************************************)
LastRow == RowCount - 1

C26_SelectedRowValid ==
  /\ [](selectedRow >= 0 /\ selectedRow <= LastRow)
  /\ [][handleKeyDown("ArrowDown") =>
          selectedRow' = IF selectedRow = LastRow THEN LastRow
                         ELSE selectedRow + 1]_vars
  /\ [][handleKeyDown("ArrowUp") =>
          selectedRow' = IF selectedRow = 0 THEN 0 ELSE selectedRow - 1]_vars
  /\ [][(\E key \in Keys \ {"ArrowDown", "ArrowUp"} : handleKeyDown(key))
          => selectedRow' = selectedRow]_vars

\* ArrowDown has brought the selection to the last row.
C26_Witness == selectedRow = LastRow

(***************************************************************************)
(* C27: VirtualScrollExample renders only the visible window: for every    *)
(* scroll offset within the list (0 <= scrollTop <= dataSize*50 - 400) the *)
(* rendered slice contains every item that intersects the 400px viewport,  *)
(* starts at floor(scrollTop/50), and never contains more than 10 items.   *)
(***************************************************************************)
\* Item i occupies the pixels from 50 i up to 50 (i + 1); the viewport
\* shows those from scrollTop up to scrollTop + 400.
IntersectsViewport(i) ==
  50 * i < scrollTop + 400 /\ 50 * (i + 1) > scrollTop

C27_VisibleWindow ==
  (0 <= scrollTop /\ scrollTop <= dataSize * 50 - 400) =>
    /\ \A i \in 0..(dataSize - 1) : IntersectsViewport(i) => i \in VisibleItems
    /\ \A i \in VisibleItems : i * 50 + 50 > scrollTop
    /\ VisibleItems # {} => visibleRange.start \in VisibleItems
    /\ \E q \in 0..dataSize :
         q * 50 <= scrollTop /\ scrollTop < (q + 1) * 50
           /\ visibleRange.start = q
    /\ Cardinality(VisibleItems) <= 10

\* Scrolled into the middle of an item: nine items intersect the viewport.
C27_Witness ==
  /\ scrollTop % 50 # 0 /\ visibleRange.start > 0
  /\ Cardinality({i \in 0..(dataSize - 1) : IntersectsViewport(i)}) = 9
  /\ Cardinality(VisibleItems) = 9

(***************************************************************************)
(* C28: DemoList finishes loading and stays loaded: once mounted with an   *)
(* items prop the parent does not change (also when the parent omits items *)
(* and the default list is used), loading eventually becomes false with    *)
(* data equal to items, and loading then remains false.                    *)
(***************************************************************************)
\* The list the parent means: the items it passes, or the default list.
ExpectedItems ==
  IF IsNull(listItems)
  THEN <<"Apple", "Banana", "Cherry", "Date", "Elderberry">>
  ELSE listItems.elems

\* The effect has run, and the list shows the items.
ListLoaded ==
  ~IsNull(listDeps) /\ ~listLoading /\ listData.elems = ExpectedItems

C28_LoadsAndStaysLoaded ==
  /\ <>ListLoaded
  /\ [][ListLoaded => ListLoaded']_vars

(***************************************************************************)
(* C29: every timer LoadingExample starts (the initial 2s load and each    *)
(* Reload click) is cancelled if the component unmounts before it fires,   *)
(* so no timer callback updates state after unmount; and at most one such  *)
(* timer is pending at a time.                                             *)
(***************************************************************************)
C29_TimersCancelledOnUnmount ==
  /\ ~exMounted => exTimers = {}
  /\ ~exLate
  /\ Cardinality(exTimers) <= 1

=============================================================================
